---- MODULE Spec2Model ----
(***************************************************************************)
(* Earth 3.0 FACES dashboard (src/app.py): one run of the Streamlit        *)
(* script, from data-source selection to the CSV export, as a sequential   *)
(* state machine.  pc is the position in the script; an uncaught Python    *)
(* exception ends the run in pc = "aborted" with the exception in error.   *)
(*                                                                         *)
(* Number representation (floats are modelled by exact fixed point):       *)
(*   raw metric cells      in units of 1e-4   (0.78  is 7800)              *)
(*   F, A, C, E, S, index  in tenths          (78.0  is 780)               *)
(*   slider weights        in hundredths      (0.25  is 25)                *)
(*   normalized weights    as exact fractions [n, d]                       *)
(*   magnitudes            in tenths          (7.0   is 70)                *)
(*   stability score       in whole points (every penalty is a whole       *)
(*                         number, so round(score, 1) changes nothing)     *)
(* A Python value that may be a number, NaN, a string or None is a tagged  *)
(* record [t, v].                                                          *)
(***************************************************************************)
EXTENDS Integers, Sequences, FiniteSets, TLC

VARIABLES pc, error, clock,
          uploaded, df_raw, org_select,
          sliders, total, weights, real_time,
          df_scores, idx, trend_df, trend_prev, calls, status,
          eq_df, cov_summary, sci, weather, csv_buf,
          http, requests

vars == <<pc, error, clock, uploaded, df_raw, org_select, sliders, total,
          weights, real_time, df_scores, idx, trend_df, trend_prev, calls,
          status, eq_df, cov_summary, sci, weather, csv_buf, http, requests>>

-----------------------------------------------------------------------------
(* Python values *)

Num(x) == [t |-> "num", v |-> x]
NaN == [t |-> "nan", v |-> 0]
Str == [t |-> "str", v |-> 0]
None == [t |-> "none", v |-> 0]

IsNum(x) == x.t = "num"

Names == <<"F", "A", "C", "E", "S">>
NameSet == {"F", "A", "C", "E", "S"}

MinOf(a, b) == IF a < b THEN a ELSE b
MaxOf(a, b) == IF a > b THEN a ELSE b

\* round-half-to-even of n / d, d > 0 (numpy's and Python's round)
RoundHalfEven(n, d) ==
    LET q == n \div d
        r == n - q * d
    IN  IF 2 * r < d THEN q
        ELSE IF 2 * r > d THEN q + 1
        ELSE IF q % 2 = 0 THEN q ELSE q + 1

-----------------------------------------------------------------------------
(* Sample data, lines 22-34.  A row of the metrics table: the organisation *)
(* and its five raw metric cells, keyed by the letter of the score column  *)
(* computed from each (F from metric_finance, A from metric_ai, C from     *)
(* metric_climate, E from metric_equity, S from metric_sustain).           *)

Row(o, f, a, c, e, s) ==
    [org |-> o, metric |-> [F |-> f, A |-> a, C |-> c, E |-> e, S |-> s]]

SAMPLE_CSV ==
    << Row("Unilever",     Num(7800), Num(8500), Num(6200), Num(7100), Num(7700)),
       Row("Microsoft",    Num(9100), Num(9600), Num(4000), Num(8100), Num(8800)),
       Row("Siemens",      Num(8400), Num(7800), Num(5500), Num(6400), Num(7300)),
       Row("SingaporeGov", Num(8800), Num(7000), Num(3000), Num(9000), Num(8200)) >>

\* pd.to_numeric(errors='coerce').fillna(0).clip(0, 1) on one cell
CoerceCell(x) ==
    IF ~IsNum(x) THEN Num(0)
    ELSE Num(MaxOf(0, MinOf(10000, x.v)))

load_sample_df ==
    [i \in 1..Len(SAMPLE_CSV) |->
        [org |-> SAMPLE_CSV[i].org,
         metric |-> [n \in NameSet |-> CoerceCell(SAMPLE_CSV[i].metric[n])]]]

-----------------------------------------------------------------------------
(* Uploaded files.  A readable upload is a one-row CSV: the first sample   *)
(* row with at most one cell replaced by an empty cell (NaN after          *)
(* read_csv), a non-numeric string, a value below 0, a value above 1 or    *)
(* another value in range (0.3994, 0.3996, 0.6994: scores 39.9, 40.0 and   *)
(* 69.9).                                                                  *)

OddCells ==
    {NaN, Str, Num(-2500), Num(12500), Num(3994), Num(3996), Num(6994)}

NoFile == [kind |-> "none", rows |-> <<>>]
Unreadable == [kind |-> "unreadable", rows |-> <<>>]
CsvFile(rows) == [kind |-> "csv", rows |-> rows]

UploadedFiles ==
    {CsvFile(<<SAMPLE_CSV[1]>>)} \cup
    {CsvFile(<<[org |-> SAMPLE_CSV[1].org,
                metric |-> [SAMPLE_CSV[1].metric EXCEPT ![n] = x]]>>) :
        n \in NameSet, x \in OddCells}

\* lines 143-152: pd.read_csv(uploaded) as parsed, no coercion; the sample
\* when there is no upload or read_csv raised
ReadData(up) ==
    IF up.kind = "csv" THEN up.rows ELSE load_sample_df

-----------------------------------------------------------------------------
(* Weights, lines 160-167 *)

SliderSteps == 2

SliderVals == {(k * 100) \div SliderSteps : k \in 0..SliderSteps}

SliderDefaults == [F |-> 25, A |-> 20, C |-> 20, E |-> 20, S |-> 15]

AllSliders == [NameSet -> SliderVals] \cup {SliderDefaults}

\* the sum with the last slider left out
TotalWithoutS(w) == w["F"] + w["A"] + w["C"] + w["E"]

\* line 166
Total(w) == w["F"] + w["A"] + w["C"] + w["E"] + w["S"]

\* the sliders taken as they are, not divided by their total
NormalizeUnscaled(w) == [n \in NameSet |-> [n |-> w[n], d |-> 100]]

\* line 167, for total # 0: each weight is the exact fraction w / total
Normalize(w) == [n \in NameSet |-> [n |-> w[n], d |-> Total(w)]]

NoWeights == [n \in NameSet |-> [n |-> 0, d |-> 0]]

-----------------------------------------------------------------------------
(* Scoring, lines 39-50 *)

\* (df[col] * 100).round(1), in tenths
Scale(x) ==
    IF IsNum(x) THEN Num(RoundHalfEven(x.v, 10)) ELSE x

\* line 49: the weighted sum rounded to one decimal; NaN if a term is NaN
Earth3_Index(sc, w) ==
    IF \E n \in NameSet : ~IsNum(sc[n]) THEN NaN
    ELSE Num(RoundHalfEven(sc["F"].v * w["F"].n + sc["A"].v * w["A"].n
                           + sc["C"].v * w["C"].n + sc["E"].v * w["E"].n
                           + sc["S"].v * w["S"].n,
                           w["F"].d))

ScoreRow(r, w) ==
    LET sc == [n \in NameSet |-> Scale(r.metric[n])]
    IN  [org |-> r.org, score |-> sc, Earth3_Index |-> Earth3_Index(sc, w)]

compute_faces_scores(df, w) == [i \in 1..Len(df) |-> ScoreRow(df[i], w)]

\* a string cell: str * 100 is a str, and rounding it or multiplying it by
\* a float weight raises TypeError inside compute_faces_scores
HasStrCell(df) ==
    \E i \in 1..Len(df) : \E n \in NameSet : df[i].metric[n].t = "str"

\* line 177: df_scores[df_scores['org'] == org_select].iloc[0]
SelectedRow(df, o) ==
    df[CHOOSE i \in 1..Len(df) :
          /\ df[i].org = o
          /\ \A j \in 1..(i - 1) : df[j].org # o]

-----------------------------------------------------------------------------
(* Trend generator, lines 126-131 *)

\* rng.normal(loc=0.0, scale=1.5, size=7).cumsum() for
\* np.random.default_rng(seed=42), in thousandths of an index point: the
\* same seven numbers on every call
Variations == <<457, -1103, 23, 1434, -1493, -3446, -3254>>

\* the point left unclamped
TrendPointUnclamped(base_index, v) ==
    IF ~IsNum(base_index) THEN 1000
    ELSE RoundHalfEven(base_index.v * 100 + v, 100)

\* line 130 and the round of line 131, in tenths.  With a NaN base the sum
\* is NaN, min(100, nan) is 100 (nan < 100 is false) and max(0, 100) is 100.
TrendPoint(base_index, v) ==
    IF ~IsNum(base_index) THEN 1000
    ELSE RoundHalfEven(MaxOf(0, MinOf(100000, base_index.v * 100 + v)), 100)

\* nows[i] is the day datetime.utcnow() reads in the i-th iteration of the
\* comprehension of line 128 (i = 1 is range value 6)
generate_7day_trend(base_index, nows) ==
    [i \in 1..7 |-> [date |-> nows[i] - (7 - i),
                     index |-> TrendPoint(base_index, Variations[i])]]

NoFrame == <<>>

-----------------------------------------------------------------------------
(* Status tier, lines 198-203.  Every comparison with NaN is false. *)

\* the thresholds exclusive (> for >=)
TierExclusive(x) ==
    IF IsNum(x) /\ x.v > 700 THEN "GREEN"
    ELSE IF IsNum(x) /\ x.v > 400 THEN "YELLOW"
    ELSE "RED"

Tier(x) ==
    IF IsNum(x) /\ x.v >= 700 THEN "GREEN"
    ELSE IF IsNum(x) /\ x.v >= 400 THEN "YELLOW"
    ELSE "RED"

-----------------------------------------------------------------------------
(* HTTP: what one requests.get(url, timeout=...) call can end in *)

Response(k, s, b) == [kind |-> k, status |-> s, body |-> b]
Body(j, d) == [json |-> j, data |-> d]

NoBody == Body("none", None)
NoResponse == Response("none", 0, NoBody)
Timeout == Response("timeout", 0, NoBody)
NetError == Response("neterror", 0, NoBody)

NotJson == Body("notjson", None)
JsonArray == Body("array", None)
JsonObject(d) == Body("object", d)

\* A 200 answer carries any of the bodies ok; a 503 answer carries the
\* service's error message: text that is no JSON, or the JSON object err
HttpResponses(ok, err) ==
    {Timeout, NetError} \cup
    {Response("http", 200, b) : b \in ok \cup {NotJson, JsonArray}} \cup
    {Response("http", 503, b) : b \in {NotJson, err}}

\* r.json() raises, or the parsed value is not an object (.get raises)
NoObject(r) == r.kind # "http" \/ r.body.json # "object"

Feeds == {"seismic", "disease", "weather"}

\* dict.get(key): None for an absent key as for a null value
Get(x) == IF x.t \in {"absent", "none"} THEN None ELSE x
Absent == [t |-> "absent", v |-> 0]

\* a truthy Python value (a non-zero number or a non-empty string)
Truthy(x) == (x.t = "num" /\ x.v # 0) \/ x.t = "str"

-----------------------------------------------------------------------------
(* Seismic feed, lines 55-75 *)

MaxFeatures == 2

MagVals == {49, 50, 59, 60, 69, 70}

Feature(m, t, g) == [mag |-> m, time |-> t, geometry |-> g]

\* a feature's geometry is a point with coordinates ("point"), is missing
\* from the feature ("absent"), is null ("null") or has an empty
\* coordinates list ("nocoords")
FeatureVals ==
    {Feature(Num(m), Num(1), "point") : m \in MagVals} \cup
    { Feature(None, Num(1), "point"),
      Feature(Str, Num(1), "point"),
      Feature(Num(50), Absent, "absent"),
      Feature(Num(50), Num(1), "null"),
      Feature(Num(50), Num(1), "nocoords"),
      Feature(Num(50), Str, "point") }

FeatureLists == UNION {[1..n -> FeatureVals] : n \in 0..MaxFeatures}

Features(t, items) == [t |-> t, items |-> items]

\* a JSON object without a features member, as an error message is
SeismicError == JsonObject([features |-> Features("absent", <<>>)])

SeismicBodies ==
    { SeismicError,
      JsonObject([features |-> Features("none", <<>>)]) } \cup
    { JsonObject([features |-> Features("list", l)]) : l \in FeatureLists }

EqColumns == <<"place", "mag", "time", "lon", "lat">>

\* pd.DataFrame(rows): no columns when there are no rows
DataFrame(rows) ==
    [columns |-> IF rows = <<>> THEN <<>> ELSE EqColumns, rows |-> rows]

\* line 75
EmptyEqFrame == [columns |-> EqColumns, rows |-> <<>>]

\* lines 63-72 raise on this feature: None.get (null geometry), coords[0]
\* of an empty list, or str / 1000.0
FeatureRaises(f) ==
    f.geometry \in {"null", "nocoords"} \/ f.time.t = "str"

\* lines 66-72
EqRow(f) ==
    [place |-> Str,
     mag |-> Get(f.mag),
     time |-> IF Truthy(f.time) THEN f.time ELSE None,
     lon |-> IF f.geometry = "point" THEN Num(1) ELSE None,
     lat |-> IF f.geometry = "point" THEN Num(1) ELSE None]

fetch_earthquakes(r, limit) ==
    IF NoObject(r) THEN EmptyEqFrame
    ELSE LET fs == r.body.data.features
         IN  IF fs.t = "none" THEN EmptyEqFrame
             ELSE LET items == IF fs.t = "absent" THEN <<>>
                               ELSE SubSeq(fs.items, 1, MinOf(limit, Len(fs.items)))
                  IN  IF \E i \in 1..Len(items) : FeatureRaises(items[i])
                      THEN EmptyEqFrame
                      ELSE DataFrame([i \in 1..Len(items) |-> EqRow(items[i])])

-----------------------------------------------------------------------------
(* Disease feed, lines 77-90 *)

TodayCasesVals ==
    {Absent, None, Num(0), Num(100000), Num(100001), Num(500000),
     Num(500001), Str}

CovidData(c, tc, u) ==
    [cases |-> c, todayCases |-> tc, deaths |-> c, todayDeaths |-> c,
     updated |-> u]

\* a JSON object with none of the five members, as an error message is
CovidError == JsonObject(CovidData(Absent, Absent, Absent))

CovidBodies ==
    {JsonObject(CovidData(Num(7), tc, Num(1))) : tc \in TodayCasesVals} \cup
    { CovidError,
      JsonObject(CovidData(Num(7), Num(0), None)),
      JsonObject(CovidData(Num(7), Num(0), Str)) }

EmptyDict == [k \in {} |-> None]

fetch_covid_summary(r) ==
    IF NoObject(r) THEN EmptyDict
    ELSE LET data == r.body.data
         IN  IF data.updated.t = "str" THEN EmptyDict
             ELSE [cases |-> Get(data.cases),
                   todayCases |-> Get(data.todayCases),
                   deaths |-> Get(data.deaths),
                   todayDeaths |-> Get(data.todayDeaths),
                   updated |-> IF Truthy(data.updated) THEN data.updated
                               ELSE None]

-----------------------------------------------------------------------------
(* Weather feed, lines 92-99 *)

CurrentWeather == [temperature |-> 215, windspeed |-> 90]

\* a JSON object without a current_weather member, as an error message is
WeatherError == JsonObject([current_weather |-> Absent])

WeatherBodies ==
    { WeatherError,
      JsonObject([current_weather |-> None]),
      JsonObject([current_weather |-> [t |-> "object", v |-> 0]]) }

fetch_weather_for(r) ==
    IF NoObject(r) THEN EmptyDict
    ELSE LET cw == r.body.data.current_weather
         IN  IF cw.t = "absent" THEN EmptyDict
             ELSE IF cw.t = "none" THEN None
             ELSE CurrentWeather

-----------------------------------------------------------------------------
(* Supply-chain stability indicator, lines 104-121 *)

\* eq_df['mag'].max(): the largest number of the column, nulls skipped; NaN
\* when the column holds no number
RECURSIVE MaxMag(_)
MaxMag(rows) ==
    IF rows = <<>> THEN NaN
    ELSE LET rest == MaxMag(Tail(rows))
             m == Head(rows).mag
         IN  IF ~IsNum(m) THEN rest
             ELSE IF ~IsNum(rest) THEN m
             ELSE Num(MaxOf(m.v, rest.v))

\* lines 107-114
SeismicPenalty(eq) ==
    IF eq.rows = <<>> THEN 0
    ELSE LET max_mag == MaxMag(eq.rows)
         IN  IF ~IsNum(max_mag) THEN 0
             ELSE IF max_mag.v >= 70 THEN 40
             ELSE IF max_mag.v >= 60 THEN 25
             ELSE IF max_mag.v >= 50 THEN 10
             ELSE 0

\* fail-closed: a missing todayCases counted as a surge
TodayCasesFailClosed(cov) ==
    LET x == IF "todayCases" \in DOMAIN cov THEN cov.todayCases ELSE None
    IN  IF Truthy(x) THEN x ELSE Num(500001)

\* line 116: covid_summary.get('todayCases') or 0
TodayCases(cov) ==
    LET x == IF "todayCases" \in DOMAIN cov THEN cov.todayCases ELSE None
    IN  IF Truthy(x) THEN x ELSE Num(0)

\* the thresholds inclusive (>= for >)
DiseasePenaltyInclusive(cov) ==
    LET today_cases == TodayCases(cov)
    IN  IF today_cases.v >= 500000 THEN 30
        ELSE IF today_cases.v >= 100000 THEN 15
        ELSE 0

\* lines 117-120
DiseasePenalty(cov) ==
    LET today_cases == TodayCases(cov)
    IN  IF today_cases.v > 500000 THEN 30
        ELSE IF today_cases.v > 100000 THEN 15
        ELSE 0

\* comparing a str with a number raises TypeError: a string magnitude in a
\* non-empty frame (lines 107-109) or a string todayCases (line 117)
SupplyRaises(eq, cov) ==
    \/ \E i \in 1..Len(eq.rows) : eq.rows[i].mag.t = "str"
    \/ TodayCases(cov).t = "str"

compute_supply_chain_indicator(eq, cov) ==
    MaxOf(0, 100 - SeismicPenalty(eq) - DiseasePenalty(cov))

-----------------------------------------------------------------------------
(* Export, lines 265-266: the header and one line per row of df_scores *)

to_csv(df) ==
    <<<<"org", "F", "A", "C", "E", "S", "Earth3_Index">>>> \o
    [i \in 1..Len(df) |->
        <<df[i].org, df[i].score["F"], df[i].score["A"], df[i].score["C"],
          df[i].score["E"], df[i].score["S"], df[i].Earth3_Index>>]

-----------------------------------------------------------------------------
(* The run of the script *)

MaxDays == 2
MaxCalls == 2

Init ==
    /\ pc = "data"
    /\ error = "none"
    /\ clock = 0
    /\ uploaded = NoFile
    /\ df_raw = <<>>
    /\ org_select = "none"
    /\ sliders = SliderDefaults
    /\ total = 0
    /\ weights = NoWeights
    /\ real_time = TRUE
    /\ df_scores = <<>>
    /\ idx = None
    /\ trend_df = NoFrame
    /\ trend_prev = NoFrame
    /\ calls = 0
    /\ status = "none"
    /\ eq_df = DataFrame(<<>>)
    /\ cov_summary = EmptyDict
    /\ sci = None
    /\ weather = EmptyDict
    /\ csv_buf = <<>>
    /\ http = [f \in Feeds |-> NoResponse]
    /\ requests = [f \in Feeds |-> 0]

\* an uncaught exception ends the run
Raise(e) ==
    /\ pc' = "aborted"
    /\ error' = e

\* lines 141-156: the data source and the organisation picked in the
\* selectbox (one of the positions in picks)
SelectData(files, picks) ==
    /\ pc = "data"
    /\ \E up \in files :
         LET df == ReadData(up)
         IN  \E i \in picks \cap (1..Len(df)) :
               /\ uploaded' = up
               /\ df_raw' = df
               /\ org_select' = df[i].org
    /\ pc' = "sliders"
    /\ UNCHANGED <<error, clock, sliders, total, weights, real_time, df_scores,
                   idx, trend_df, trend_prev, calls, status, eq_df,
                   cov_summary, sci, weather, csv_buf, http, requests>>

\* lines 160-171: the five sliders, the normalization and the real-time
\* checkbox; a float division by a total of 0.0 raises ZeroDivisionError
MoveSliders(choices, toggles) ==
    /\ pc = "sliders"
    /\ \E w \in choices, rt \in toggles :
         /\ sliders' = w
         /\ total' = Total(w)
         /\ IF Total(w) = 0
            THEN /\ Raise("ZeroDivisionError")
                 /\ UNCHANGED <<weights, real_time>>
            ELSE /\ weights' = Normalize(w)
                 /\ real_time' = rt
                 /\ pc' = "score"
                 /\ UNCHANGED error
    /\ UNCHANGED <<clock, uploaded, df_raw, org_select, df_scores, idx,
                   trend_df, trend_prev, calls, status, eq_df, cov_summary,
                   sci, weather, csv_buf, http, requests>>

\* lines 176-190
ComputeScores ==
    /\ pc = "score"
    /\ IF HasStrCell(df_raw)
       THEN /\ Raise("TypeError")
            /\ UNCHANGED <<df_scores, idx>>
       ELSE /\ df_scores' = compute_faces_scores(df_raw, weights)
            /\ idx' = SelectedRow(df_scores', org_select).Earth3_Index
            /\ pc' = "trend"
            /\ UNCHANGED error
    /\ UNCHANGED <<clock, uploaded, df_raw, org_select, sliders, total,
                   weights, real_time, trend_df, trend_prev, calls, status,
                   eq_df, cov_summary, sci, weather, csv_buf, http, requests>>

\* one call of generate_7day_trend(idx): the UTC date rolls over after the
\* k-th of the seven utcnow() readings (k = 7: not during the call)
CallTrend(k) ==
    LET nows == [i \in 1..7 |-> IF i <= k THEN clock ELSE clock + 1]
    IN  /\ k < 7 => clock < MaxDays
        /\ trend_prev' = trend_df
        /\ trend_df' = generate_7day_trend(idx, nows)
        /\ calls' = calls + 1
        /\ clock' = nows[7]

\* lines 193-195
Trend(rolls) ==
    /\ pc = "trend"
    /\ \E k \in rolls : CallTrend(k)
    /\ pc' = "status"
    /\ UNCHANGED <<error, uploaded, df_raw, org_select, sliders, total,
                   weights, real_time, df_scores, idx, status, eq_df,
                   cov_summary, sci, weather, csv_buf, http, requests>>

\* lines 198-203
ShowStatus ==
    /\ pc = "status"
    /\ status' = Tier(idx)
    /\ pc' = "fetch_eq"
    /\ UNCHANGED <<error, clock, uploaded, df_raw, org_select, sliders, total,
                   weights, real_time, df_scores, idx, trend_df, trend_prev,
                   calls, eq_df, cov_summary, sci, weather, csv_buf, http,
                   requests>>

\* one requests.get of a feed, answered by r
Request(feed, r) ==
    /\ http' = [http EXCEPT ![feed] = r]
    /\ requests' = [requests EXCEPT ![feed] = @ + 1]

\* lines 209-214 and 218
FetchEarthquakes(resps) ==
    /\ pc = "fetch_eq"
    /\ \E r \in resps :
         /\ Request("seismic", r)
         /\ eq_df' = fetch_earthquakes(r, IF real_time THEN 100 ELSE 20)
    /\ pc' = "fetch_covid"
    /\ UNCHANGED <<error, clock, uploaded, df_raw, org_select, sliders, total,
                   weights, real_time, df_scores, idx, trend_df, trend_prev,
                   calls, status, cov_summary, sci, weather, csv_buf>>

\* lines 215 and 219
FetchCovid(resps) ==
    /\ pc = "fetch_covid"
    /\ \E r \in resps :
         /\ Request("disease", r)
         /\ cov_summary' = fetch_covid_summary(r)
    /\ pc' = "sci"
    /\ UNCHANGED <<error, clock, uploaded, df_raw, org_select, sliders, total,
                   weights, real_time, df_scores, idx, trend_df, trend_prev,
                   calls, status, eq_df, sci, weather, csv_buf>>

\* lines 221-243 (the map and the three metrics change no state)
StabilityIndicator ==
    /\ pc = "sci"
    /\ IF SupplyRaises(eq_df, cov_summary)
       THEN /\ Raise("TypeError")
            /\ UNCHANGED sci
       ELSE /\ sci' = Num(compute_supply_chain_indicator(eq_df, cov_summary))
            /\ pc' = "weather"
            /\ UNCHANGED error
    /\ UNCHANGED <<clock, uploaded, df_raw, org_select, sliders, total,
                   weights, real_time, df_scores, idx, trend_df, trend_prev,
                   calls, status, eq_df, cov_summary, weather, csv_buf, http,
                   requests>>

\* lines 248-256
FetchWeather(resps) ==
    /\ pc = "weather"
    /\ \E r \in resps :
         /\ Request("weather", r)
         /\ weather' = fetch_weather_for(r)
    /\ pc' = "export"
    /\ UNCHANGED <<error, clock, uploaded, df_raw, org_select, sliders, total,
                   weights, real_time, df_scores, idx, trend_df, trend_prev,
                   calls, status, eq_df, cov_summary, sci, csv_buf>>

\* lines 261-273
Export ==
    /\ pc = "export"
    /\ csv_buf' = to_csv(df_scores)
    /\ pc' = "done"
    /\ UNCHANGED <<error, clock, uploaded, df_raw, org_select, sliders, total,
                   weights, real_time, df_scores, idx, trend_df, trend_prev,
                   calls, status, eq_df, cov_summary, sci, weather, http,
                   requests>>

-----------------------------------------------------------------------------
(* Spec: runs over every data source, organisation and slider setting,     *)
(* with the feeds unreachable.                                             *)

Next ==
    \/ SelectData({NoFile, Unreadable} \cup UploadedFiles, 1..Len(SAMPLE_CSV))
    \/ MoveSliders(AllSliders, {TRUE})
    \/ ComputeScores
    \/ Trend({7})
    \/ ShowStatus
    \/ FetchEarthquakes({Timeout})
    \/ FetchCovid({Timeout})
    \/ StabilityIndicator
    \/ FetchWeather({Timeout})
    \/ Export

Spec == Init /\ [][Next]_vars

(* SpecFeeds: runs on the sample data with the default sliders, over every *)
(* outcome of the three requests and both settings of the checkbox.        *)

NextFeeds ==
    \/ SelectData({NoFile}, {1})
    \/ MoveSliders({SliderDefaults}, BOOLEAN)
    \/ ComputeScores
    \/ Trend({7})
    \/ ShowStatus
    \/ FetchEarthquakes(HttpResponses(SeismicBodies, SeismicError))
    \/ FetchCovid(HttpResponses(CovidBodies, CovidError))
    \/ StabilityIndicator
    \/ FetchWeather(HttpResponses(WeatherBodies, WeatherError))
    \/ Export

SpecFeeds == Init /\ [][NextFeeds]_vars

(* SpecTrend: generate_7day_trend called repeatedly with one base index,   *)
(* while the UTC date may advance between and during the calls.            *)

TrendBases ==
    {NaN, Num(-250), Num(1250)} \cup {Num(k * 25) : k \in 0..40}

InitTrend ==
    /\ pc = "generate_7day_trend"
    /\ error = "none"
    /\ clock = 0
    /\ uploaded = NoFile
    /\ df_raw = <<>>
    /\ org_select = "none"
    /\ sliders = SliderDefaults
    /\ total = 0
    /\ weights = NoWeights
    /\ real_time = TRUE
    /\ df_scores = <<>>
    /\ idx \in TrendBases
    /\ trend_df = NoFrame
    /\ trend_prev = NoFrame
    /\ calls = 0
    /\ status = "none"
    /\ eq_df = DataFrame(<<>>)
    /\ cov_summary = EmptyDict
    /\ sci = None
    /\ weather = EmptyDict
    /\ csv_buf = <<>>
    /\ http = [f \in Feeds |-> NoResponse]
    /\ requests = [f \in Feeds |-> 0]

TrendCall ==
    /\ pc = "generate_7day_trend"
    /\ calls < MaxCalls
    /\ \E k \in 0..7 : CallTrend(k)
    /\ UNCHANGED <<pc, error, uploaded, df_raw, org_select, sliders, total,
                   weights, real_time, df_scores, idx, status, eq_df,
                   cov_summary, sci, weather, csv_buf, http, requests>>

\* midnight UTC passes between two calls
Tick ==
    /\ pc = "generate_7day_trend"
    /\ clock < MaxDays
    /\ clock' = clock + 1
    /\ UNCHANGED <<pc, error, uploaded, df_raw, org_select, sliders, total,
                   weights, real_time, df_scores, idx, trend_df, trend_prev,
                   calls, status, eq_df, cov_summary, sci, weather, csv_buf,
                   http, requests>>

NextTrend == TrendCall \/ Tick

SpecTrend == InitTrend /\ [][NextTrend]_vars

-----------------------------------------------------------------------------
(* The penalty rules as the specification states them, over the values the *)
(* run holds.                                                              *)

\* the numeric magnitudes of the seismic result set
Magnitudes ==
    {eq_df.rows[i].mag.v :
        i \in {j \in 1..Len(eq_df.rows) : eq_df.rows[j].mag.t = "num"}}

StatedSeismicPenalty ==
    IF Magnitudes = {} THEN 0
    ELSE LET m == CHOOSE x \in Magnitudes : \A y \in Magnitudes : y <= x
         IN  IF m >= 70 THEN 40
             ELSE IF m >= 60 /\ m < 70 THEN 25
             ELSE IF m >= 50 /\ m < 60 THEN 10
             ELSE 0

StatedDiseasePenalty ==
    IF "todayCases" \in DOMAIN cov_summary /\ cov_summary.todayCases.t = "num"
    THEN LET c == cov_summary.todayCases.v
         IN  IF c > 500000 THEN 30
             ELSE IF c > 100000 /\ c <= 500000 THEN 15
             ELSE 0
    ELSE 0

Computed(x) == x.t = "num"

-----------------------------------------------------------------------------
(* C1: whenever the stability score has been computed it is exactly 100    *)
(* minus the seismic penalty (40, 25, 10 or 0 by the largest magnitude)    *)
(* minus the disease penalty (30, 15 or 0 by todayCases), the two applied  *)
(* independently, whatever the weather feed answered, and so lies between  *)
(* 30 and 100.                                                             *)
C1_ScoreIsBaselineMinusPenalties ==
    Computed(sci) =>
        /\ sci.v = 100 - StatedSeismicPenalty - StatedDiseasePenalty
        /\ sci.v >= 30
        /\ sci.v <= 100

\* a magnitude of 6.x together with more than 100000 and at most 500000
\* cases: 100 - 25 - 15, still so after the weather request
C1_Witness ==
    /\ pc = "done"
    /\ sci = Num(60)
    /\ StatedSeismicPenalty = 25
    /\ StatedDiseasePenalty = 15
    /\ weather = CurrentWeather

(* C2: fail-open.  With the seismic fetch Unavailable (its empty frame)    *)
(* the score is 100 minus the disease penalty alone; with the disease      *)
(* fetch Unavailable ({}) it is 100 minus the seismic penalty alone; with  *)
(* both it is 100.                                                         *)
C2_FailOpen ==
    Computed(sci) =>
        /\ eq_df = EmptyEqFrame => sci.v = 100 - StatedDiseasePenalty
        /\ DOMAIN cov_summary = {} => sci.v = 100 - StatedSeismicPenalty
        /\ (eq_df = EmptyEqFrame /\ DOMAIN cov_summary = {}) => sci.v = 100

\* the seismic request timed out and todayCases is above 500000: 70
C2_Witness ==
    /\ http["seismic"] = Timeout
    /\ eq_df = EmptyEqFrame
    /\ DOMAIN cov_summary # {}
    /\ cov_summary.todayCases = Num(500001)
    /\ sci = Num(70)

\* the outcomes the claim says collapse to Unavailable: a timeout, a
\* network failure, a non-2xx answer, a payload that is no JSON object
Failed(r) ==
    \/ r.kind \in {"timeout", "neterror"}
    \/ r.kind = "http" /\ (r.status < 200 \/ r.status > 299)
    \/ r.kind = "http" /\ r.body.json \in {"notjson", "array"}

(* C3: each fetch function returns a value for every outcome of its        *)
(* request and never raises, issues exactly one request, and returns the   *)
(* Unavailable value (an empty frame, {} and {}) on a timeout, a network   *)
(* failure, a non-2xx answer or a malformed payload.                       *)
C3_FailuresCollapseToUnavailable ==
    /\ \A f \in Feeds : requests[f] <= 1
    /\ \A f \in Feeds : requests[f] = 1 <=> http[f] # NoResponse
    /\ pc \in {"fetch_covid", "sci", "weather", "export", "done"}
          => requests["seismic"] = 1
    /\ pc \in {"sci", "weather", "export", "done"} => requests["disease"] = 1
    /\ pc \in {"export", "done"} => requests["weather"] = 1
    /\ Failed(http["seismic"]) => eq_df.rows = <<>>
    /\ Failed(http["disease"]) => DOMAIN cov_summary = {}
    /\ Failed(http["weather"]) => DOMAIN weather = {}

(* C4: total graceful degradation.  Whatever the three feeds answer and    *)
(* whichever way the checkbox is set, the run never aborts: the index is   *)
(* computed before the first request, the stability score is computed      *)
(* once both of its feeds have answered, and the export is reached.        *)
C4_NoFeedOutcomeAbortsTheRun ==
    /\ pc # "aborted"
    /\ (\E f \in Feeds : requests[f] > 0) => Computed(idx)
    /\ pc \in {"weather", "export", "done"} => Computed(sci)
    /\ pc = "done" => csv_buf # <<>>

(* C5: with every slider at 0.0 the normalization does not fail: the       *)
(* weights are the uniform vector, 0.2 each, and the index is computed.    *)
C5_ZeroWeightsGiveUniformVector ==
    (pc \notin {"data", "sliders"} /\ \A n \in NameSet : sliders[n] = 0) =>
        /\ pc # "aborted"
        /\ \A n \in NameSet : weights[n].d # 0 /\ 5 * weights[n].n = weights[n].d
        /\ pc \notin {"score"} => Computed(idx)

InRange(x) == x.t = "num" /\ x.v >= 0 /\ x.v <= 1000

(* C6: for every row whose five scaled metrics are each in [0,100] and     *)
(* every normalized weight vector, the composite index (the weighted sum   *)
(* rounded to one decimal) is in [0,100].                                  *)
C6_IndexInRange ==
    \A i \in 1..Len(df_scores) :
        (\A n \in NameSet : InRange(df_scores[i].score[n]))
            => InRange(df_scores[i].Earth3_Index)

\* unequal weights (1/2, 1/2, 0, 0, 0 of the sliders 1.0, 1.0, 0, 0, 0) on
\* the sample row of Microsoft: (91.0 + 96.0) / 2 = 93.5
C6_Witness ==
    /\ pc = "done"
    /\ org_select = "Microsoft"
    /\ sliders = [F |-> 100, A |-> 100, C |-> 0, E |-> 0, S |-> 0]
    /\ \A n \in NameSet : InRange(SelectedRow(df_scores, org_select).score[n])
    /\ idx = Num(935)

(* C7: for every index value the tier shown is GREEN exactly when the      *)
(* index is >= 70, YELLOW exactly when 40 <= index < 70 and RED exactly    *)
(* when index < 40; exactly one tier is shown; 70.0 and 40.0 fall in the   *)
(* higher tier.                                                            *)
C7_TierByThresholds ==
    (status # "none" /\ Computed(idx)) =>
        /\ status \in {"GREEN", "YELLOW", "RED"}
        /\ status = "GREEN" <=> idx.v >= 700
        /\ status = "YELLOW" <=> (idx.v >= 400 /\ idx.v < 700)
        /\ status = "RED" <=> idx.v < 400

\* the boundary value 40.0 is shown YELLOW
C7_Witness ==
    /\ idx = Num(400)
    /\ status = "YELLOW"

(* C8: for every five non-negative raw weights with a positive sum, the    *)
(* normalized weights sum to 1, each is non-negative, and the ratios are   *)
(* kept: normalized[i] * raw[j] = normalized[j] * raw[i].                  *)
C8_NormalizedWeights ==
    (pc \notin {"data", "sliders"} /\ total > 0) =>
        /\ \A n \in NameSet :
              /\ weights[n].d = total
              /\ weights[n].n >= 0
        /\ weights["F"].n + weights["A"].n + weights["C"].n + weights["E"].n
              + weights["S"].n = total
        /\ \A i, j \in NameSet :
              weights[i].n * sliders[j] * weights[j].d
                  = weights[j].n * sliders[i] * weights[i].d

\* the sliders 1.0, 0.5, 0, 0, 0.5 are normalized to 1/2, 1/4, 0, 0, 1/4
C8_Witness ==
    /\ pc = "score"
    /\ sliders = [F |-> 100, A |-> 50, C |-> 0, E |-> 0, S |-> 50]
    /\ weights["F"] = [n |-> 100, d |-> 200]
    /\ weights["S"] = [n |-> 50, d |-> 200]

(* C9: on every data path, the uploaded CSV as the sample, each of F, A,   *)
(* C, E, S is in [0,100] (missing or non-numeric becomes 0, out of range   *)
(* is clamped) and a malformed row never aborts the run.                   *)
C9_MetricsCoercedOnEveryPath ==
    /\ ~(pc = "aborted" /\ error = "TypeError")
    /\ \A i \in 1..Len(df_scores) :
          \A n \in NameSet : InRange(df_scores[i].score[n])

SameValues(a, b) ==
    /\ Len(a) = Len(b)
    /\ \A i \in 1..Len(a) : a[i].index = b[i].index

\* every utcnow() reading of both calls fell on one UTC date
SameDate(a, b) ==
    \A i \in 1..7 :
        /\ a[i].date + (7 - i) = a[7].date
        /\ b[i].date + (7 - i) = a[7].date

WellFormed(tr) ==
    /\ Len(tr) = 7
    /\ \A i, j \in 1..7 : i < j => tr[i].date < tr[j].date
    /\ \A i \in 1..7 : tr[i].index >= 0 /\ tr[i].index <= 1000

====
